---- MODULE Spec2Model ----
(***************************************************************************)
(* Model of labeler_web.py: a Flask application that lists the unlabeled   *)
(* rows of the remote table segment_images, stages labels in the           *)
(* process-wide dict pending_labels, and on commit writes the staged       *)
(* labels back to the table and rebuilds the workbook segments.xlsx.       *)
(*                                                                         *)
(* Requests are handled one at a time (single-threaded development         *)
(* server), so every handler is one atomic action.  The remote table and   *)
(* the file system are the environment: a call to them either succeeds or  *)
(* raises, and the action draws that outcome nondeterministically.         *)
(***************************************************************************)
EXTENDS Integers, Sequences, FiniteSets, TLC

\* Rows of the table have ids 1..MaxId (a store may hold any subset of them).
MaxId == 2
\* Accepted stage requests remembered in the history variable log.
MaxLog == 2

VARIABLES
    store,           \* the remote table segment_images, in the order it returns rows
    pending_labels,  \* the dict pending_labels: segment id -> staged label
    xlsx,            \* the file at XLSX_PATH
    request,         \* the request handled last
    response,        \* the response (status, JSON body) it was given
    segments,        \* api_commit's local `segments` in the last commit
    faults,          \* which calls to the environment raised in the last request
    snapshot,        \* history: pending_labels as the last commit found it
    log              \* history: the stage requests accepted so far, oldest first

vars == <<store, pending_labels, xlsx, request, response, segments, faults, snapshot, log>>

----------------------------------------------------------------------------
(* Values *)

\* Python None / SQL NULL in the label column.
None == "<None>"

\* Labels a row of the table may hold before the application touches it.
StoredLabels == {None, "", "dog"}

SegNames == <<"seg1", "seg2", "seg3", "seg4">>
Urls == <<"http://x/1.png", "http://x/2.png", "http://x/3.png", "http://x/4.png">>

Row(i, l) == [id |-> i, segment_name |-> SegNames[i], url |-> Urls[i], label |-> l]

Ids(s) == {s[k].id : k \in 1..Len(s)}

\* The tables the application may find: rows with distinct positive ids, each
\* with any stored label, returned by the table in ascending or in descending
\* order of id.
Stores ==
    UNION { { s \in [1..n -> {Row(i, l) : i \in 1..MaxId, l \in StoredLabels}] :
                \/ \A j, k \in 1..n : j < k => s[j].id < s[k].id
                \/ \A j, k \in 1..n : j < k => s[j].id > s[k].id } : n \in 0..MaxId }

\* JSON values of a request body's fields.  A number is held in tenths, so that
\* 0.5 is Num(5) and -5 is Num(-50).
Missing == [t |-> "missing"]
Null == [t |-> "null"]
Num(tenths) == [t |-> "num", v |-> tenths]
Str(s) == [t |-> "str", s |-> s]

\* request.get_json(silent=True) or {}: a dict whose keys may be missing; a body
\* that is absent or not JSON is the empty dict.
EmptyData == [id |-> Missing, label |-> Missing]

IdValues == {Missing, Num(-50), Num(5), Str("abc")} \cup {Num(10 * i) : i \in 1..MaxId}

LabelValues == {Missing, Str("cat"), Null}

Datas == [id : IdValues, label : LabelValues]

\* dict.get(key, default)
Get(v, default) == IF v = Missing THEN default ELSE v

\* int(x): a number is truncated toward zero; None and a non-numeric string raise.
IntRaises(j) == j.t \in {"null", "str"}
IntOf(j) == IF j.v >= 0 THEN j.v \div 10 ELSE -((-j.v) \div 10)

\* str(x) of a string or of None
StrOf(j) == IF j.t = "null" THEN "None" ELSE j.s

\* x or ""
OrEmpty(l) == IF l = None \/ l = "" THEN "" ELSE l

----------------------------------------------------------------------------
(* Responses *)

Json(status, body) == [status |-> status, body |-> body]
OkTrue == Json(200, [ok |-> TRUE])
InvalidId == Json(400, [ok |-> FALSE, error |-> "invalid segment_id"])
ServerError == Json(500, [fault |-> TRUE])
SegmentsBody(rows) == Json(200, [segments |-> rows])

NoFaults == [read |-> FALSE, update |-> {}, save |-> FALSE]

----------------------------------------------------------------------------
(* load_segments_from_db *)

\* Mutant: the filter dropped, every row selected.
IsSelected_all(row) == TRUE

\* The query: .or_("label.is.null")
IsSelected(row) == row.label = None

Query(st) == SelectSeq(st, IsSelected)

\* The loop body: the row as presented, with the staged label when there is one.
Overlay(row, pl) ==
    [id |-> row.id,
     segment_name |-> row.segment_name,
     url |-> row.url,
     label |-> IF row.id \in DOMAIN pl THEN pl[row.id] ELSE OrEmpty(row.label)]

\* readFault: execute() raised; the except clause leaves segments empty.
load_segments_from_db(st, pl, readFault) ==
    IF readFault THEN <<>>
    ELSE LET rows == Query(st) IN [k \in 1..Len(rows) |-> Overlay(rows[k], pl)]

----------------------------------------------------------------------------
(* Init *)

NoFile == [state |-> "absent"]

Init ==
    /\ store \in Stores
    /\ pending_labels = <<>>
    /\ xlsx = NoFile
    /\ request = [op |-> "none", data |-> EmptyData]
    /\ response = Json(0, [none |-> TRUE])
    /\ segments = <<>>
    /\ faults = NoFaults
    /\ snapshot = <<>>
    /\ log = <<>>

----------------------------------------------------------------------------
(* GET /api/segments *)

\* Mutant: no except clause, a failed read is answered 500.
api_segments_raise ==
    \E readFault \in BOOLEAN :
        /\ request' = [op |-> "list", data |-> EmptyData]
        /\ faults' = [NoFaults EXCEPT !.read = readFault]
        /\ response' = IF readFault
                       THEN ServerError
                       ELSE SegmentsBody(load_segments_from_db(store, pending_labels, FALSE))
        /\ segments' = <<>>
        /\ snapshot' = <<>>
        /\ UNCHANGED <<store, pending_labels, xlsx, log>>

api_segments ==
    \E readFault \in BOOLEAN :
        /\ request' = [op |-> "list", data |-> EmptyData]
        /\ faults' = [NoFaults EXCEPT !.read = readFault]
        /\ response' = SegmentsBody(load_segments_from_db(store, pending_labels, readFault))
        /\ segments' = <<>>
        /\ snapshot' = <<>>
        /\ UNCHANGED <<store, pending_labels, xlsx, log>>

----------------------------------------------------------------------------
(* POST /api/pending *)

\* Mutant: setdefault, an entry already staged is kept.
SetItem_setdefault(pl, k, v) ==
    [x \in DOMAIN pl \cup {k} |-> IF x \in DOMAIN pl THEN pl[x] ELSE v]

\* pending_labels[segment_id] = label
SetItem(pl, k, v) == [x \in DOMAIN pl \cup {k} |-> IF x = k THEN v ELSE pl[x]]

\* The handler's locals segment_id and label.
segment_id(data) == IntOf(Get(data.id, Num(0)))
label(data) == StrOf(Get(data.label, Str("")))

\* Mutant: only negative ids rejected.
InvalidSegmentId_negative(id) == id < 0

\* if segment_id <= 0
InvalidSegmentId(id) == id <= 0

api_pending(data) ==
    /\ request' = [op |-> "stage", data |-> data]
    /\ faults' = NoFaults
    /\ segments' = <<>>
    /\ snapshot' = <<>>
    /\ UNCHANGED <<store, xlsx>>
    /\ IF IntRaises(Get(data.id, Num(0)))
       THEN /\ response' = ServerError
            /\ UNCHANGED pending_labels
       ELSE IF InvalidSegmentId(segment_id(data))
       THEN /\ response' = InvalidId
            /\ UNCHANGED pending_labels
       ELSE /\ pending_labels' = SetItem(pending_labels, segment_id(data), label(data))
            /\ response' = OkTrue

\* The stage requests of Spec: every id that is accepted, and of the others the
\* missing id, with a label that is a string or missing (SpecStaging draws from
\* all of Datas).
Stage ==
    \E data \in Datas :
        /\ IF data.id.t = "num" THEN IntOf(data.id) > 0 ELSE data.id = Missing
        /\ data.label # Null
        /\ api_pending(data)
        /\ UNCHANGED log

----------------------------------------------------------------------------
(* POST /api/commit *)

\* Mutant: the update without its .eq filter, every row relabeled.
Update_all(st, id, l) == [k \in 1..Len(st) |-> [st[k] EXCEPT !.label = l]]

\* supabase.table("segment_images").update({"label": label}).eq("id", segment_id)
Update(st, id, l) ==
    [k \in 1..Len(st) |-> IF st[k].id = id THEN [st[k] EXCEPT !.label = l] ELSE st[k]]

\* Mutant: the try around the whole loop, the first update that raises ends it.
RECURSIVE PersistAll_abort(_, _, _, _)
PersistAll_abort(st, segs, pl, failed) ==
    IF segs = <<>> THEN st
    ELSE LET seg == Head(segs)
         IN  IF seg.id \in DOMAIN pl /\ seg.id \in failed
             THEN st
             ELSE PersistAll_abort(
                      IF seg.id \in DOMAIN pl THEN Update(st, seg.id, pl[seg.id]) ELSE st,
                      Tail(segs), pl, failed)

\* Mutant: the loop over pending_labels instead of the loaded segments.
PersistAll_staged(st, segs, pl, failed) ==
    [k \in 1..Len(st) |->
        IF st[k].id \in DOMAIN pl \ failed
        THEN [st[k] EXCEPT !.label = pl[st[k].id]]
        ELSE st[k]]

\* The loop over segments: a staged segment is updated unless its call raises
\* (its id is in failed), which is printed and skipped.
RECURSIVE PersistAll(_, _, _, _)
PersistAll(st, segs, pl, failed) ==
    IF segs = <<>> THEN st
    ELSE LET seg == Head(segs)
             st1 == IF seg.id \in DOMAIN pl /\ seg.id \notin failed
                    THEN Update(st, seg.id, pl[seg.id])
                    ELSE st
         IN  PersistAll(st1, Tail(segs), pl, failed)

\* Mutant: the workbook loaded from the file and appended to.
Workbook_append(segs) ==
    [state |-> "written",
     title |-> "results",
     header |-> <<"segment_name", "url", "label">>,
     rows |-> (IF xlsx.state = "written" THEN xlsx.rows ELSE <<>>)
                \o [k \in 1..Len(segs) |-> <<segs[k].segment_name, segs[k].url, segs[k].label>>]]

\* The workbook: sheet "results", the header row, one row per segment.
Header == <<"segment_name", "url", "label">>

ExportRow(seg) == <<seg.segment_name, seg.url, seg.label>>

Workbook(segs) ==
    [state |-> "written",
     title |-> "results",
     header |-> Header,
     rows |-> [k \in 1..Len(segs) |-> ExportRow(segs[k])]]

\* wb.save raised after the file was opened for writing.
Partial == [state |-> "partial"]

\* Mutant: only the entries that were persisted are removed.
clear_persisted(pl) == [id \in DOMAIN pl \cap faults'.update |-> pl[id]]

\* pending_labels.clear()
clear(pl) == <<>>

api_commit ==
    \E readFault \in BOOLEAN, saveFault \in BOOLEAN :
        LET segs == load_segments_from_db(store, pending_labels, readFault)
        IN  \E failed \in SUBSET (Ids(segs) \cap DOMAIN pending_labels) :
                /\ request' = [op |-> "commit", data |-> EmptyData]
                /\ faults' = [read |-> readFault, update |-> failed, save |-> saveFault]
                /\ segments' = segs
                /\ snapshot' = pending_labels
                /\ store' = PersistAll(store, segs, pending_labels, failed)
                /\ IF saveFault
                   THEN /\ xlsx' \in {xlsx, Partial}
                        /\ response' = ServerError
                        /\ UNCHANGED pending_labels
                   ELSE /\ xlsx' = Workbook(segs)
                        /\ pending_labels' = clear(pending_labels)
                        /\ response' = OkTrue
                /\ UNCHANGED log

----------------------------------------------------------------------------
(* Specifications *)

Next == api_segments \/ Stage \/ api_commit

Spec == Init /\ [][Next]_vars

\* Staging and listing only, with the history of accepted stage requests kept.
StageLogged ==
    \E data \in Datas :
        /\ Len(log) < MaxLog
        /\ api_pending(data)
        /\ log' = IF response' = OkTrue
                  THEN Append(log, [id |-> segment_id(data), label |-> label(data)])
                  ELSE log

NextStaging == api_segments \/ StageLogged

SpecStaging == Init /\ [][NextStaging]_vars

----------------------------------------------------------------------------
(* Vocabulary of the properties *)

IsList == request.op = "list"
IsStage == request.op = "stage"
IsCommit == request.op = "commit"

\* The rows a list request answered with.
Listed == response.body.segments

HasRow(st, id) == \E k \in 1..Len(st) : st[k].id = id
RowOf(st, id) == st[CHOOSE k \in 1..Len(st) : st[k].id = id]

\* How many rows of a sequence carry an id.
Count(s, id) == Cardinality({k \in 1..Len(s) : s[k].id = id})

\* The stage request handled last parsed to an id (int() did not raise).
Parsed(data) == ~IntRaises(Get(data.id, Num(0)))

----------------------------------------------------------------------------
(* C1 *)

\* C1: a stage request whose parsed id is <= 0 (a missing id parses to 0) is
\* answered 400 {ok: false, error: "invalid segment_id"} and leaves
\* pending_labels exactly as it was, whatever label it carried.
C1_InvalidIdRejected ==
    [][(request'.op = "stage" /\ Parsed(request'.data) /\ segment_id(request'.data) <= 0)
          => (/\ response' = InvalidId
              /\ response'.status = 400
              /\ pending_labels' = pending_labels)]_vars

\* A rejected request that carried a label, met with labels already staged.
C1_Witness ==
    /\ IsStage
    /\ Parsed(request.data)
    /\ segment_id(request.data) <= 0
    /\ request.data.label = Str("cat")
    /\ response = InvalidId
    /\ pending_labels # <<>>

----------------------------------------------------------------------------
(* C2 *)

LoggedIds == {log[k].id : k \in 1..Len(log)}

\* The label of the most recent accepted stage request for an id.
LastStaged(id) ==
    log[CHOOSE k \in 1..Len(log) :
            log[k].id = id /\ \A j \in (k + 1)..Len(log) : log[j].id # id].label

C2_MostRecentShown ==
    \A id \in LoggedIds :
        /\ id \in DOMAIN pending_labels
        /\ pending_labels[id] = LastStaged(id)
        /\ IsList =>
              /\ \A k \in 1..Len(Listed) :
                    Listed[k].id = id => Listed[k].label = LastStaged(id)
              /\ (~faults.read /\ HasRow(store, id) /\ RowOf(store, id).label = None)
                    => \E k \in 1..Len(Listed) :
                          Listed[k].id = id /\ Listed[k].label = LastStaged(id)

C2_RestageSame ==
    (/\ request'.op = "stage"
     /\ response' = OkTrue
     /\ segment_id(request'.data) \in DOMAIN pending_labels
     /\ pending_labels[segment_id(request'.data)] = label(request'.data))
        => /\ pending_labels' = pending_labels
           /\ load_segments_from_db(store', pending_labels', FALSE)
                 = load_segments_from_db(store, pending_labels, FALSE)

----------------------------------------------------------------------------
(* C5 *)

\* C5: a list request returns only rows whose stored label is null or empty at
\* read time; a row with a non-empty stored label is never returned, staged or
\* not.
C5_OnlyUnlabeledListed ==
    IsList =>
        \A k \in 1..Len(Listed) :
            /\ HasRow(store, Listed[k].id)
            /\ RowOf(store, Listed[k].id).label \in {None, ""}

\* A listing that leaves out a labeled row although a label is staged for it.
C5_Witness ==
    /\ IsList
    /\ Len(Listed) > 0
    /\ \E k \in 1..Len(store) :
          /\ store[k].label = "dog"
          /\ store[k].id \in DOMAIN pending_labels
          /\ Count(Listed, store[k].id) = 0

----------------------------------------------------------------------------
(* C6 *)

\* C6: when the read succeeds, a list request returns every row whose stored
\* label is null and every row whose stored label is the empty string, each
\* exactly once, with the staged label when there is one.
C6_AllUnlabeledListed ==
    (IsList /\ ~faults.read) =>
        \A k \in 1..Len(store) :
            store[k].label \in {None, ""} =>
                /\ Count(Listed, store[k].id) = 1
                /\ \A j \in 1..Len(Listed) :
                      Listed[j].id = store[k].id =>
                          Listed[j].label = IF store[k].id \in DOMAIN pending_labels
                                            THEN pending_labels[store[k].id]
                                            ELSE ""

----------------------------------------------------------------------------
(* C9 *)

\* C9: when the read of the table raises, the loader returns no rows and nothing
\* is propagated: a list request answers 200 with an empty segments sequence and
\* leaves the table, pending_labels and the file as they were, and a commit
\* finds an empty sequence and updates no row.
C9_ReadFaultFailsSoft ==
    [][faults'.read =>
          /\ request'.op = "list" =>
                /\ response' = SegmentsBody(<<>>)
                /\ response'.status = 200
                /\ UNCHANGED <<store, pending_labels, xlsx>>
          /\ request'.op = "commit" =>
                /\ segments' = <<>>
                /\ store' = store]_vars

\* A failed read of a table that has unlabeled rows, with a label staged.
C9_Witness ==
    /\ IsList
    /\ faults.read
    /\ response = SegmentsBody(<<>>)
    /\ pending_labels # <<>>
    /\ \E k \in 1..Len(store) : store[k].label = None

----------------------------------------------------------------------------
(* C3 *)

\* C3 as claimed: after every commit request, whatever the outcome of the steps
\* before the clear, pending_labels is empty.
C3_ClearedAfterEveryCommit == IsCommit => pending_labels = <<>>

\* C3 as amended: after every commit request whose export write succeeded,
\* pending_labels is empty, whatever the outcome of the read of the table and of
\* the updates (entries of segments whose update raised are cleared too).
C3_ClearedAfterExportedCommit == (IsCommit /\ ~faults.save) => pending_labels = <<>>

\* A commit that found labels staged, lost an update, and cleared them all.
C3_Witness ==
    /\ IsCommit
    /\ ~faults.save
    /\ faults.update # {}
    /\ DOMAIN snapshot \ faults.update # {}
    /\ pending_labels = <<>>

----------------------------------------------------------------------------
(* C4 *)

\* C4: in a commit where the update of some staged segment raises, every other
\* staged segment of the loaded sequence has its staged label in the table
\* afterwards, the row whose update raised is as it was, and, the export being
\* written, the commit answers {ok: true}, pending_labels is empty, and the
\* file's row for the failed segment carries its staged label.
C4_UpdateFaultIsSkipped ==
    [][(request'.op = "commit" /\ faults'.update # {}) =>
          /\ \A k \in 1..Len(segments') :
                (segments'[k].id \in DOMAIN pending_labels \ faults'.update)
                    => RowOf(store', segments'[k].id).label
                          = pending_labels[segments'[k].id]
          /\ \A id \in faults'.update : RowOf(store', id) = RowOf(store, id)
          /\ ~faults'.save =>
                /\ response' = OkTrue
                /\ pending_labels' = <<>>
                /\ xlsx'.state = "written"
                /\ \A k \in 1..Len(segments') :
                      segments'[k].id \in faults'.update
                          => xlsx'.rows[k] = <<segments'[k].segment_name,
                                               segments'[k].url,
                                               pending_labels[segments'[k].id]>>]_vars

\* Two staged segments: the update of the first raised, the second was persisted,
\* and the file shows the staged label of the first.
C4_Witness ==
    /\ IsCommit
    /\ ~faults.save
    /\ response = OkTrue
    /\ pending_labels = <<>>
    /\ Len(segments) = 2
    /\ faults.update = {segments[1].id}
    /\ snapshot[segments[1].id] = "cat"
    /\ RowOf(store, segments[1].id).label = None
    /\ xlsx.rows[1][3] = "cat"
    /\ segments[2].id \in DOMAIN snapshot
    /\ snapshot[segments[2].id] = "cat"
    /\ RowOf(store, segments[2].id).label = "cat"

----------------------------------------------------------------------------
(* C7 *)

\* C7: in a commit where the read and every update succeed, each row of the
\* table that is in the loaded sequence and has a staged label ends with that
\* label and is otherwise as it was; every other row is as it was; no row is
\* added or removed.
C7_CommitPersistsStaged ==
    [][(request'.op = "commit" /\ ~faults'.read /\ faults'.update = {}) =>
          /\ Len(store') = Len(store)
          /\ \A k \in 1..Len(store) :
                store'[k] =
                    IF /\ Count(segments', store[k].id) > 0
                       /\ store[k].id \in DOMAIN pending_labels
                    THEN [store[k] EXCEPT !.label = pending_labels[store[k].id]]
                    ELSE store[k]]_vars

\* A commit without faults that persisted "cat" for an unlabeled row and left
\* alone a labeled row for which "cat" was staged too.
C7_Witness ==
    /\ IsCommit
    /\ ~faults.read
    /\ faults.update = {}
    /\ \E k \in 1..Len(segments) :
          /\ segments[k].id \in DOMAIN snapshot
          /\ snapshot[segments[k].id] = "cat"
          /\ RowOf(store, segments[k].id).label = "cat"
    /\ \E k \in 1..Len(store) :
          /\ store[k].id \in DOMAIN snapshot
          /\ snapshot[store[k].id] = "cat"
          /\ store[k].label = "dog"

----------------------------------------------------------------------------
(* C8 *)

\* C8: after a commit whose export write succeeds, the file is the sheet
\* "results" with the header and exactly one row per segment of the sequence
\* loaded by that commit, in its order: (segment_name, url, label) with the
\* label staged before the commit, else empty, not the label the table holds
\* afterwards; nothing of the earlier file is left.
C8_ExportIsLoadedSequence ==
    [][(request'.op = "commit" /\ ~faults'.save) =>
          /\ xlsx'.state = "written"
          /\ xlsx'.title = "results"
          /\ xlsx'.header = <<"segment_name", "url", "label">>
          /\ segments' = load_segments_from_db(store, pending_labels, faults'.read)
          /\ Len(xlsx'.rows) = Len(segments')
          /\ \A k \in 1..Len(segments') :
                xlsx'.rows[k] = <<segments'[k].segment_name,
                                  segments'[k].url,
                                  IF segments'[k].id \in DOMAIN pending_labels
                                  THEN pending_labels[segments'[k].id]
                                  ELSE "">>]_vars

\* An export of two rows in descending order of id, one with a staged label
\* that the table does not hold, one unstaged.
C8_Witness ==
    /\ IsCommit
    /\ ~faults.save
    /\ xlsx.state = "written"
    /\ Len(xlsx.rows) = 2
    /\ segments[1].id > segments[2].id
    /\ xlsx.rows[1] = <<segments[1].segment_name, segments[1].url, "cat">>
    /\ RowOf(store, segments[1].id).label = None
    /\ segments[2].id \notin DOMAIN snapshot
    /\ xlsx.rows[2][3] = ""

----------------------------------------------------------------------------
(* C10 *)

\* C10: a commit changes only rows whose id is in the sequence it loaded: for a
\* staged id that is not in it (no such row, a row not returned by the query, or
\* a failed read) the table is as it was; and, the export being written, the
\* entry is cleared with the rest and the commit answers {ok: true}.
C10_UnloadedStagedIsDropped ==
    [][request'.op = "commit" =>
          /\ Len(store') = Len(store)
          /\ \A k \in 1..Len(store) :
                store'[k] # store[k] => Count(segments', store[k].id) > 0
          /\ \A id \in DOMAIN pending_labels :
                Count(segments', id) = 0 =>
                    /\ HasRow(store', id) = HasRow(store, id)
                    /\ HasRow(store, id) => RowOf(store', id) = RowOf(store, id)
                    /\ ~faults'.save =>
                          /\ id \notin DOMAIN pending_labels'
                          /\ response' = OkTrue]_vars

\* A successful commit that found "cat" staged for a labeled row and for an id
\* with no row: neither is in the table afterwards, and both entries are gone.
C10_Witness ==
    /\ IsCommit
    /\ ~faults.save
    /\ ~faults.read
    /\ response = OkTrue
    /\ pending_labels = <<>>
    /\ \E id \in DOMAIN snapshot :
          /\ snapshot[id] = "cat"
          /\ Count(segments, id) = 0
          /\ HasRow(store, id)
          /\ RowOf(store, id).label = "dog"
    /\ \E id \in DOMAIN snapshot :
          /\ snapshot[id] = "cat"
          /\ ~HasRow(store, id)

====
